---- MODULE Spec2Model ----
(***************************************************************************)
(* Model of Tools/dpxderez.py: the DPX header parser readDPXMetaData, the  *)
(* 10-bit payload decoder readDPXImageData, the encoder writeDPX and the   *)
(* module-level header cache they share, driven by a caller that parses,   *)
(* decodes, transforms and writes files in any order.                      *)
(*                                                                         *)
(* Files are byte sequences (TLA+ index i+1 holds the byte at offset i).   *)
(* A float sample s of an image is held as the integer n with              *)
(* s * 1023.0 = n / Den, so a decoded sample k/1023.0 is n = k * Den; in   *)
(* IEEE double arithmetic (k/1023.0)*1023.0 = k exactly for every k in     *)
(* 0..1023, which is why the scaled value is kept instead of the quotient. *)
(* Python's None is the record None, a present value v is Some(v).         *)
(***************************************************************************)
EXTENDS Integers, Sequences, FiniteSets, TLC

None == [isNone |-> TRUE]
Some(v) == [isNone |-> FALSE, val |-> v]

(***************************************************************************)
(* Byte-level helpers                                                      *)
(***************************************************************************)
RECURSIVE Reverse(_)
Reverse(b) == IF b = <<>> THEN <<>> ELSE Append(Reverse(Tail(b)), Head(b))

Min(a, b) == IF a < b THEN a ELSE b

\* f.seek(pos); f.read(n): the bytes [pos, pos+n) that exist in the file
ReadAt(file, pos, n) ==
  IF pos >= Len(file) \/ n <= 0 THEN <<>>
  ELSE SubSeq(file, pos + 1, Min(Len(file), pos + n))

\* v as n bytes in the file's byte order
EncodeUInt(e, n, v) ==
  LET be == [i \in 1 .. n |-> (v \div (256 ^ (n - i))) % 256]
  IN  IF e = ">" THEN be ELSE Reverse(be)

\* unsigned value of a byte string, most significant byte first
RECURSIVE BytesToUInt(_)
BytesToUInt(b) ==
  IF b = <<>> THEN 0
  ELSE BytesToUInt(SubSeq(b, 1, Len(b) - 1)) * 256 + b[Len(b)]

\* IEEE-754 single: sign, biased exponent and fraction of the 4 bytes taken
\* most significant first
FloatOf(b) ==
  [sign |-> b[1] \div 128,
   exp  |-> (b[1] % 128) * 2 + (b[2] \div 128),
   frac |-> (b[2] % 128) * 65536 + b[3] * 256 + b[4]]

(***************************************************************************)
(* bytes.decode(encoding='UTF-8'), strict: the code points, or a failure   *)
(* (UnicodeDecodeError) on an ill-formed sequence                          *)
(***************************************************************************)
IsCont(c) == c >= 128 /\ c <= 191

\* bytes i .. hi, one character after the other
RECURSIVE Utf8From(_, _, _)
Utf8From(b, i, hi) ==
  IF i > hi THEN [ok |-> TRUE, val |-> <<>>]
  ELSE
    LET c == b[i]
        step(len, cp) ==
          LET rest == Utf8From(b, i + len, hi)
          IN  IF rest.ok THEN [ok |-> TRUE, val |-> <<cp>> \o rest.val]
              ELSE [ok |-> FALSE, val |-> <<>>]
        bad == [ok |-> FALSE, val |-> <<>>]
    IN  IF c < 128 THEN step(1, c)
        ELSE IF c >= 194 /\ c <= 223 THEN
          IF i + 1 <= hi /\ IsCont(b[i + 1])
          THEN step(2, (c - 192) * 64 + (b[i + 1] - 128)) ELSE bad
        ELSE IF c >= 224 /\ c <= 239 THEN
          IF /\ i + 2 <= hi
             /\ IsCont(b[i + 1]) /\ IsCont(b[i + 2])
             /\ (c = 224 => b[i + 1] >= 160)
             /\ (c = 237 => b[i + 1] <= 159)
          THEN step(3, (c - 224) * 4096 + (b[i + 1] - 128) * 64 + (b[i + 2] - 128))
          ELSE bad
        ELSE IF c >= 240 /\ c <= 244 THEN
          IF /\ i + 3 <= hi
             /\ IsCont(b[i + 1]) /\ IsCont(b[i + 2]) /\ IsCont(b[i + 3])
             /\ (c = 240 => b[i + 1] >= 144)
             /\ (c = 244 => b[i + 1] <= 143)
          THEN step(4, (c - 240) * 262144 + (b[i + 1] - 128) * 4096
                         + (b[i + 2] - 128) * 64 + (b[i + 3] - 128))
          ELSE bad
        ELSE bad

\* bytes lo .. hi, lo being the start of a character.  A long range is cut
\* at a character start near its middle (a byte that is not a continuation
\* byte; four continuation bytes in a row are ill-formed) and the halves
\* are decoded separately, which gives the same result as one pass.
RECURSIVE Utf8Range(_, _, _)
Utf8Range(b, lo, hi) ==
  IF hi - lo < 8 THEN Utf8From(b, lo, hi)
  ELSE
    LET m0 == (lo + hi) \div 2
        starts == {m \in (m0 - 3) .. m0 : ~IsCont(b[m])}
    IN  IF starts = {} THEN [ok |-> FALSE, val |-> <<>>]
        ELSE
          LET m == CHOOSE x \in starts : \A y \in starts : y <= x
              left == Utf8Range(b, lo, m - 1)
              right == Utf8Range(b, m, hi)
          IN  IF left.ok /\ right.ok
              THEN [ok |-> TRUE, val |-> left.val \o right.val]
              ELSE [ok |-> FALSE, val |-> <<>>]

Utf8Decode(b) == Utf8Range(b, 1, Len(b))

\* the two magic tokens, as decoded text
SDPX == <<83, 68, 80, 88>>
XPDS == <<88, 80, 68, 83>>

(***************************************************************************)
(* struct.unpack(endianness + fmt, bytes)[0]: struct.error unless the      *)
(* buffer has exactly the size of the format                               *)
(***************************************************************************)
FmtSize(fmt, n) ==
  CASE fmt = "B" -> 1
    [] fmt = "H" -> 2
    [] fmt = "I" -> 4
    [] fmt = "f" -> 4
    [] OTHER     -> n

\* a variant that ignores the byte order prefix (native order)
InOrderNative(endianness, b) == Reverse(b)

InOrder(endianness, b) == IF endianness = ">" THEN b ELSE Reverse(b)

Unpack(endianness, fmt, n, b) ==
  IF Len(b) # FmtSize(fmt, n) THEN [ok |-> FALSE, val |-> 0]
  ELSE CASE fmt = "f" -> [ok |-> TRUE, val |-> FloatOf(InOrder(endianness, b))]
         [] fmt = "s" -> [ok |-> TRUE, val |-> b]
         [] OTHER     -> [ok |-> TRUE, val |-> BytesToUInt(InOrder(endianness, b))]

(***************************************************************************)
(* The static field table: (field name, offset, length, type)              *)
(***************************************************************************)
\* a variant in which the entry at 806 carries the name of the entry before it
propertymapRenamed ==
    << 
       <<"magic", 0, 4, "magic">>,
       <<"offset", 4, 4, "I">>,
       <<"dpx_version", 8, 8, "utf8">>,
       <<"file_size", 16, 4, "I">>,
       <<"ditto", 20, 4, "I">>,
       <<"generic_size", 24, 4, "I">>,
       <<"industry_size", 28, 4, "I">>,
       <<"user_size", 32, 4, "I">>,
       <<"filename", 36, 100, "utf8">>,
       <<"timestamp", 136, 24, "utf8">>,
       <<"creator", 160, 100, "utf8">>,
       <<"project_name", 260, 200, "utf8">>,
       <<"copyright", 460, 200, "utf8">>,
       <<"encryption_key", 660, 4, "I">>,
       <<"generic_reserved", 664, 104, "s">>,
       <<"orientation", 768, 2, "H">>,
       <<"image_element_count", 770, 2, "H">>,
       <<"width", 772, 4, "I">>,
       <<"height", 776, 4, "I">>,
       <<"data_sign", 780, 4, "I">>,
       <<"low_data", 784, 4, "I">>,
       <<"low_quantity", 788, 4, "f">>,
       <<"high_data", 792, 4, "I">>,
       <<"high_quantity", 796, 4, "f">>,
       <<"descriptor", 800, 1, "B">>,
       <<"transfer_characteristic", 801, 1, "B">>,
       <<"colorimetry", 802, 1, "B">>,
       <<"depth", 803, 1, "B">>,
       <<"packing", 804, 2, "H">>,
       <<"packing", 806, 2, "H">>,
       <<"line_padding", 812, 4, "I">>,
       <<"image_padding", 816, 4, "I">>,
       <<"image_element_description", 820, 32, "utf8">>,
       <<"image_reserved", 852, 556, "s">>,
       <<"x_offset", 1408, 4, "I">>,
       <<"y_offset", 1412, 4, "I">>,
       <<"x_center", 1416, 4, "f">>,
       <<"y_center", 1420, 4, "f">>,
       <<"x_originalsize", 1424, 4, "I">>,
       <<"y_originalsize", 1428, 4, "I">>,
       <<"source_filename", 1432, 100, "utf8">>,
       <<"source_timestamp", 1532, 24, "utf8">>,
       <<"input_device_name", 1556, 32, "utf8">>,
       <<"input_device_sn", 1588, 32, "utf8">>,
       <<"border_xl", 1620, 2, "H">>,
       <<"border_xr", 1622, 2, "H">>,
       <<"border_yt", 1624, 2, "H">>,
       <<"border_yb", 1626, 2, "H">>,
       <<"aspect_h", 1628, 4, "I">>,
       <<"aspect_v", 1632, 4, "I">>,
       <<"orientation_reserved", 1636, 28, "s">>,
       <<"film_industry_header", 1664, 256, "s">>,
       <<"timecode", 1920, 4, "I">>,
       <<"user_bits", 1924, 4, "I">>,
       <<"interlace", 1928, 1, "B">>,
       <<"field_number", 1929, 1, "B">>,
       <<"video_signal", 1930, 1, "B">>,
       <<"tv_padding", 1931, 1, "B">>,
       <<"h_sample_rate", 1932, 4, "f">>,
       <<"v_sample_rate", 1936, 4, "f">>,
       <<"frame_rate", 1940, 4, "f">>,
       <<"time_offset", 1944, 4, "f">>,
       <<"gamma", 1948, 4, "f">>,
       <<"black_level", 1952, 4, "f">>,
       <<"black_gain", 1956, 4, "f">>,
       <<"break_point", 1960, 4, "f">>,
       <<"white_level", 1964, 4, "f">>,
       <<"integration_times", 1968, 4, "f">>,
       <<"tv_reserved", 1972, 76, "s">>    >>

propertymap ==
    << 
       <<"magic", 0, 4, "magic">>,
       <<"offset", 4, 4, "I">>,
       <<"dpx_version", 8, 8, "utf8">>,
       <<"file_size", 16, 4, "I">>,
       <<"ditto", 20, 4, "I">>,
       <<"generic_size", 24, 4, "I">>,
       <<"industry_size", 28, 4, "I">>,
       <<"user_size", 32, 4, "I">>,
       <<"filename", 36, 100, "utf8">>,
       <<"timestamp", 136, 24, "utf8">>,
       <<"creator", 160, 100, "utf8">>,
       <<"project_name", 260, 200, "utf8">>,
       <<"copyright", 460, 200, "utf8">>,
       <<"encryption_key", 660, 4, "I">>,
       <<"generic_reserved", 664, 104, "s">>,
       <<"orientation", 768, 2, "H">>,
       <<"image_element_count", 770, 2, "H">>,
       <<"width", 772, 4, "I">>,
       <<"height", 776, 4, "I">>,
       <<"data_sign", 780, 4, "I">>,
       <<"low_data", 784, 4, "I">>,
       <<"low_quantity", 788, 4, "f">>,
       <<"high_data", 792, 4, "I">>,
       <<"high_quantity", 796, 4, "f">>,
       <<"descriptor", 800, 1, "B">>,
       <<"transfer_characteristic", 801, 1, "B">>,
       <<"colorimetry", 802, 1, "B">>,
       <<"depth", 803, 1, "B">>,
       <<"packing", 804, 2, "H">>,
       <<"encoding", 806, 2, "H">>,
       <<"line_padding", 812, 4, "I">>,
       <<"image_padding", 816, 4, "I">>,
       <<"image_element_description", 820, 32, "utf8">>,
       <<"image_reserved", 852, 556, "s">>,
       <<"x_offset", 1408, 4, "I">>,
       <<"y_offset", 1412, 4, "I">>,
       <<"x_center", 1416, 4, "f">>,
       <<"y_center", 1420, 4, "f">>,
       <<"x_originalsize", 1424, 4, "I">>,
       <<"y_originalsize", 1428, 4, "I">>,
       <<"source_filename", 1432, 100, "utf8">>,
       <<"source_timestamp", 1532, 24, "utf8">>,
       <<"input_device_name", 1556, 32, "utf8">>,
       <<"input_device_sn", 1588, 32, "utf8">>,
       <<"border_xl", 1620, 2, "H">>,
       <<"border_xr", 1622, 2, "H">>,
       <<"border_yt", 1624, 2, "H">>,
       <<"border_yb", 1626, 2, "H">>,
       <<"aspect_h", 1628, 4, "I">>,
       <<"aspect_v", 1632, 4, "I">>,
       <<"orientation_reserved", 1636, 28, "s">>,
       <<"film_industry_header", 1664, 256, "s">>,
       <<"timecode", 1920, 4, "I">>,
       <<"user_bits", 1924, 4, "I">>,
       <<"interlace", 1928, 1, "B">>,
       <<"field_number", 1929, 1, "B">>,
       <<"video_signal", 1930, 1, "B">>,
       <<"tv_padding", 1931, 1, "B">>,
       <<"h_sample_rate", 1932, 4, "f">>,
       <<"v_sample_rate", 1936, 4, "f">>,
       <<"frame_rate", 1940, 4, "f">>,
       <<"time_offset", 1944, 4, "f">>,
       <<"gamma", 1948, 4, "f">>,
       <<"black_level", 1952, 4, "f">>,
       <<"black_gain", 1956, 4, "f">>,
       <<"break_point", 1960, 4, "f">>,
       <<"white_level", 1964, 4, "f">>,
       <<"integration_times", 1968, 4, "f">>,
       <<"tv_reserved", 1972, 76, "s">>    >>

(***************************************************************************)
(* readDPXMetaData(f): the part that depends only on the source bytes.     *)
(***************************************************************************)
\* the value entry i of the table tbl stores under its name (lines 231-249)
FieldValueOf(tbl, file, endianness, i) ==
  LET p == tbl[i]
      bytes == ReadAt(file, p[2], p[3])
      r == IF p[4] = "magic" \/ p[4] = "utf8" THEN Utf8Decode(bytes)
           ELSE Unpack(endianness, p[4], p[3], bytes)
  IN  [ok |-> r.ok, val |-> r.val, pos |-> p[2] + Len(bytes)]

FieldValue(file, endianness, i) == FieldValueOf(propertymap, file, endianness, i)

\* The loop `for p in propertymap` (lines 230-249) over the table tbl.  Each key of meta holds what the last
\* assignment to it stored: entry i assigns meta[p[0]], and an entry of type
\* 'magic' then also assigns meta['endianness'].  The first entry whose
\* decoding raises ends the loop.  A name met a second time is reported on
\* standard output (lines 233-234) and the loop goes on.
ReadFieldsOf(tbl, file, endianness, magic) ==
  LET n == Len(tbl)
      vals == [i \in 1 .. n |-> FieldValueOf(tbl, file, endianness, i)]
      failing == {i \in 1 .. n : ~vals[i].ok}
      keys == {tbl[i][1] : i \in 1 .. n}
                \cup {"endianness" : i \in {j \in 1 .. n : tbl[j][4] = "magic"}}
      writers(k) == {i \in 1 .. n :
                       tbl[i][1] = k
                         \/ (k = "endianness" /\ tbl[i][4] = "magic")}
      last(k) == CHOOSE i \in writers(k) : \A j \in writers(k) : j <= i
  IN  IF failing # {}
      THEN [ok |-> FALSE, meta |-> [k \in {} |-> 0],
            pos |-> vals[CHOOSE i \in failing : \A j \in failing : i <= j].pos]
      ELSE [ok |-> TRUE,
            meta |-> [k \in keys |->
                        IF k = "endianness" /\ tbl[last(k)][4] = "magic"
                        THEN (IF magic = SDPX THEN "be" ELSE "le")
                        ELSE vals[last(k)].val],
            pos |-> 0]

ReadFields(file, endianness, magic) ==
  ReadFieldsOf(propertymap, file, endianness, magic)

EmptyMeta == [k \in {} |-> 0]

\* Outcome of one call on the bytes `file`.  io names the point where the
\* underlying read fails with an IOError: "none", "early" (the first read,
\* line 222) or "late" (the re-read of the header, line 256).
\*   kind = "None"  : bad magic, returns None
\*   kind = "raise" : an exception leaves the function; saved = TRUE when the
\*                    assignments of lines 253-254 were already made
\*   kind = "meta"  : returns the mapping meta
readDPXMetaDataWith(tbl, file, io) ==
  LET raised(sv, e, o, at) ==
        [kind |-> "raise", saved |-> sv, endianness |-> e, offset |-> o,
         header |-> <<>>, meta |-> EmptyMeta, pos |-> at]
      bytes == ReadAt(file, 0, 4)
      d == Utf8Decode(bytes)
  IN  IF io = "early" THEN raised(FALSE, "None", -1, 0)
      ELSE IF ~d.ok THEN raised(FALSE, "None", -1, Len(bytes))
      ELSE IF d.val # SDPX /\ d.val # XPDS THEN
        [kind |-> "None", saved |-> FALSE, endianness |-> "None", offset |-> -1,
         header |-> <<>>, meta |-> EmptyMeta, pos |-> Len(bytes)]
      ELSE
        LET endianness == IF d.val = SDPX THEN ">" ELSE "<"
            r == ReadFieldsOf(tbl, file, endianness, d.val)
        IN  IF ~r.ok THEN raised(FALSE, "None", -1, r.pos)
            ELSE IF io = "late" THEN raised(TRUE, endianness, r.meta["offset"], 0)
            ELSE
              LET hdr == ReadAt(file, 0, r.meta["offset"])
              IN  [kind |-> "meta", saved |-> TRUE, endianness |-> endianness,
                   offset |-> r.meta["offset"], header |-> hdr,
                   meta |-> r.meta, pos |-> Len(hdr)]

\* the call with the table as the module defines it
readDPXMetaDataOn(file, io) == readDPXMetaDataWith(propertymap, file, io)

(***************************************************************************)
(* 32-bit words.  numpy holds the payload as np.int32 in the host's byte   *)
(* order (little-endian on the hosts numpy is built for), so a word is a   *)
(* signed integer in -2^31 .. 2^31-1.                                      *)
(***************************************************************************)
\* np.fromfile(dtype=int32): four file bytes -> native signed word
Int32FromBytes(b) ==
  b[1] + b[2] * 256 + b[3] * 65536
    + (IF b[4] >= 128 THEN b[4] - 256 ELSE b[4]) * 16777216

\* ndarray.tofile: native signed word -> four file bytes
Int32ToBytes(w) ==
  << w % 256, (w \div 256) % 256, (w \div 65536) % 256, (w \div 16777216) % 256 >>

\* a variant that swaps the two 16-bit halves only
byteswap16(w) ==
  LET b == Int32ToBytes(w)
  IN  Int32FromBytes(<<b[3], b[4], b[1], b[2]>>)

\* ndarray.byteswap()
byteswap(w) == Int32FromBytes(Reverse(Int32ToBytes(w)))

\* a variant whose mask is one bit too wide
ShiftMaskWide(w, s) == (w \div (2 ^ s)) % 2048

\* a variant that leaves the mask off the topmost field
ShiftNoTopMask(w, s) ==
  IF s = 22 THEN w \div (2 ^ s) ELSE (w \div (2 ^ s)) % 1024

\* (raw >> s) & 0x000003FF on a signed word: arithmetic shift, then mask
ShiftMask(w, s) == (w \div (2 ^ s)) % 1024

(***************************************************************************)
(* Images: numpy arrays of shape (h, w, c); px is the row-major sequence   *)
(* of the h*w pixels, each the sequence of its c samples (scaled by Den).  *)
(***************************************************************************)
Den == 2

Image(h, w, c, px) == [h |-> h, w |-> w, c |-> c, px |-> px]

(***************************************************************************)
(* readDPXImageData(f, meta): outcome on the bytes `file`                  *)
(*   kind = "None"  : unsupported profile                                  *)
(*   kind = "raise" : reshape fails because the payload is short           *)
(*   kind = "image" : the decoded image                                    *)
(***************************************************************************)
\* a variant in which the four tests are joined by "and"
UnsupportedAll(meta) ==
  meta["depth"] # 10 /\ meta["packing"] # 1 /\ meta["encoding"] # 0
    /\ meta["descriptor"] # 50

\* the profile test of line 262
Unsupported(meta) ==
  meta["depth"] # 10 \/ meta["packing"] # 1 \/ meta["encoding"] # 0
    \/ meta["descriptor"] # 50

\* a variant that applies the orientation field: rows are taken bottom to
\* top when the header says so
readDPXImageDataOnOriented(file, pos, meta) ==
  IF Unsupported(meta)
  THEN [kind |-> "None", image |-> Image(0, 0, 0, <<>>), pos |-> pos]
  ELSE
    LET width == meta["width"]
        height == meta["height"]
        offset == meta["offset"]
        count == width * height
        avail == IF offset >= Len(file) THEN 0 ELSE (Len(file) - offset) \div 4
        word(k) == LET w == Int32FromBytes(ReadAt(file, offset + 4 * (k - 1), 4))
                   IN  IF meta["endianness"] = "be" THEN byteswap(w) ELSE w
        from(k) == IF meta["orientation"] \in {2, 3}
                   THEN (height - 1 - ((k - 1) \div width)) * width
                          + ((k - 1) % width) + 1
                   ELSE k
    IN  IF avail < count
        THEN [kind |-> "raise", image |-> Image(0, 0, 0, <<>>),
              pos |-> offset + 4 * avail]
        ELSE [kind |-> "image",
              image |-> Image(height, width, 3,
                          [k \in 1 .. count |->
                             << ShiftMask(word(from(k)), 22) * Den,
                                ShiftMask(word(from(k)), 12) * Den,
                                ShiftMask(word(from(k)), 2) * Den >>]),
              pos |-> offset + 4 * count]

readDPXImageDataOn(file, pos, meta) ==
  IF Unsupported(meta)
  THEN [kind |-> "None", image |-> Image(0, 0, 0, <<>>), pos |-> pos]
  ELSE
    LET width == meta["width"]
        height == meta["height"]
        offset == meta["offset"]
        count == width * height
        avail == IF offset >= Len(file) THEN 0 ELSE (Len(file) - offset) \div 4
        items == Min(count, avail)
        raw == [k \in 1 .. items |->
                  LET w == Int32FromBytes(ReadAt(file, offset + 4 * (k - 1), 4))
                  IN  IF meta["endianness"] = "be" THEN byteswap(w) ELSE w]
        after == offset + 4 * items
    IN  IF items # count
        THEN [kind |-> "raise", image |-> Image(0, 0, 0, <<>>), pos |-> after]
        ELSE [kind |-> "image",
              image |-> Image(height, width, 3,
                          [k \in 1 .. count |->
                             << ShiftMask(raw[k], 22) * Den,
                                ShiftMask(raw[k], 12) * Den,
                                ShiftMask(raw[k], 2) * Den >>]),
              pos |-> after]

(***************************************************************************)
(* writeDPX(f, image) on a freshly created sink                            *)
(***************************************************************************)
\* (image * 1023.0).astype(np.int32): conversion to integer truncates
\* toward zero
AsInt32(n) == IF n >= 0 THEN n \div Den ELSE -((-n) \div Den)

\* ((x & 0x3FF) << 22) on int32 wraps into the sign bit
Shl22(x) == (IF x >= 512 THEN x - 1024 ELSE x) * 4194304

\* a variant that puts the third channel one bit lower
PackPixelLow(p) ==
  Shl22(AsInt32(p[1]) % 1024)
    + (AsInt32(p[2]) % 1024) * 4096
    + (AsInt32(p[3]) % 1024) * 2

\* a variant that clamps a scaled sample to 0..1023
PackPixelClamped(p) ==
  LET clamp(x) == IF x < 0 THEN 0 ELSE IF x > 1023 THEN 1023 ELSE x
  IN  Shl22(clamp(AsInt32(p[1])))
        + clamp(AsInt32(p[2])) * 4096
        + clamp(AsInt32(p[3])) * 4

\* the three fields occupy disjoint bits, so | is +
PackPixel(p) ==
  Shl22(AsInt32(p[1]) % 1024)
    + (AsInt32(p[2]) % 1024) * 4096
    + (AsInt32(p[3]) % 1024) * 4

\* f.seek(pos); f.write(bytes) on the file contents `file`
WriteAt(file, pos, bytes) ==
  LET n == IF Len(file) > pos + Len(bytes) THEN Len(file) ELSE pos + Len(bytes)
  IN  IF bytes = <<>> THEN file
      ELSE [i \in 1 .. n |->
              IF i > pos /\ i <= pos + Len(bytes) THEN bytes[i - pos]
              ELSE IF i <= Len(file) THEN file[i]
              ELSE 0]

RECURSIVE Flatten(_)
Flatten(ss) == IF ss = <<>> THEN <<>> ELSE Head(ss) \o Flatten(Tail(ss))

\* a variant that takes an unset header for an empty one and writes the
\* payload from the start of the file
writeDPXOnUnset(header, endian, offset, image) ==
  IF image.c < 3
  THEN [kind |-> "raise", sink |-> IF header.isNone THEN <<>> ELSE header.val]
  ELSE
    LET payload == Flatten([k \in 1 .. Len(image.px) |->
                              Int32ToBytes(PackPixel(image.px[k]))])
    IN  [kind |-> "ok",
         sink |-> IF header.isNone THEN payload
                  ELSE WriteAt(header.val, offset, payload)]

\* a variant without the seek to the payload offset: the payload follows
\* the header bytes just written
writeDPXOnNoSeek(header, endian, offset, image) ==
  IF header.isNone THEN [kind |-> "raise", sink |-> <<>>]
  ELSE IF image.c < 3 THEN [kind |-> "raise", sink |-> header.val]
  ELSE
    LET payload == Flatten([k \in 1 .. Len(image.px) |->
                              Int32ToBytes(PackPixel(image.px[k]))])
    IN  [kind |-> "ok", sink |-> WriteAt(header.val, Len(header.val), payload)]

\* a variant that brings the width and height fields of the replayed header
\* up to date with the image
writeDPXOnResized(header, endian, offset, image) ==
  IF header.isNone THEN [kind |-> "raise", sink |-> <<>>]
  ELSE IF image.c < 3 THEN [kind |-> "raise", sink |-> header.val]
  ELSE
    LET e == IF endian = "be" THEN ">" ELSE endian
        hdr == WriteAt(WriteAt(header.val, 772, EncodeUInt(e, 4, image.w)),
                       776, EncodeUInt(e, 4, image.h))
        payload == Flatten([k \in 1 .. Len(image.px) |->
                              Int32ToBytes(PackPixel(image.px[k]))])
    IN  [kind |-> "ok", sink |-> WriteAt(hdr, offset, payload)]

\* header, endian, offset are the cached dpx_header, dpx_endian, dpx_offset
\*   kind = "raise" : TypeError (dpx_header is None) or IndexError (an image
\*                    with fewer than 3 channels); sink as left behind
\*   kind = "ok"    : returns
writeDPXOn(header, endian, offset, image) ==
  IF header.isNone THEN [kind |-> "raise", sink |-> <<>>]
  ELSE IF image.c < 3 THEN [kind |-> "raise", sink |-> header.val]
  ELSE
    LET raw == [k \in 1 .. Len(image.px) |->
                  LET w == PackPixel(image.px[k])
                  IN  IF endian = "be" THEN byteswap(w) ELSE w]
        payload == Flatten([k \in 1 .. Len(raw) |-> Int32ToBytes(raw[k])])
    IN  [kind |-> "ok", sink |-> WriteAt(header.val, offset, payload)]

(***************************************************************************)
(* Source files offered to the program.  A file is laid out by the field   *)
(* table: the fields the codec interprets are set from the record p, the   *)
(* reserved ('s') regions hold the byte 0xAB, one float field holds        *)
(* FloatBytes, bytes from 2048 up to the payload are user data, and the    *)
(* payload follows.  32-bit unsigned fields stay below 2^31.               *)
(***************************************************************************)
\* the end of the last entry of the field table
HeaderSize ==
  propertymap[Len(propertymap)][2] + propertymap[Len(propertymap)][3]
FloatBytes == <<63, 128, 0, 1>>

InField(i, off, n) == i >= off /\ i < off + n

HeaderByte(p, i) ==
  IF InField(i, 0, 4) THEN p.magic[i + 1]
  ELSE IF InField(i, 4, 4) THEN EncodeUInt(p.e, 4, p.offset)[i - 3]
  ELSE IF InField(i, 20, 4) THEN <<0, 0, 0, 1>>[i - 19]
  ELSE IF InField(i, 768, 2) THEN EncodeUInt(p.e, 2, p.orientation)[i - 767]
  ELSE IF InField(i, 772, 4) THEN EncodeUInt(p.e, 4, p.width)[i - 771]
  ELSE IF InField(i, 776, 4) THEN EncodeUInt(p.e, 4, p.height)[i - 775]
  ELSE IF i = 800 THEN p.descriptor
  ELSE IF i = 803 THEN p.depth
  ELSE IF InField(i, 804, 2) THEN EncodeUInt(p.e, 2, p.packing)[i - 803]
  ELSE IF InField(i, 806, 2) THEN EncodeUInt(p.e, 2, p.encoding)[i - 805]
  ELSE IF InField(i, 1948, 4) THEN FloatBytes[i - 1947]
  ELSE IF \E k \in 1 .. Len(propertymap) :
            propertymap[k][4] = "s" /\ InField(i, propertymap[k][2], propertymap[k][3])
       THEN 171
  ELSE 0

MkFile(p) ==
  LET all == [i \in 1 .. HeaderSize |-> HeaderByte(p, i - 1)] \o p.user \o p.payload
  IN  IF p.len < 0 THEN all ELSE SubSeq(all, 1, Min(Len(all), p.len))

Profile(m, e, off, w, h, desc, enc, user, payload, len) ==
  [magic |-> m, e |-> e, offset |-> off, orientation |-> 1, width |-> w,
   height |-> h, descriptor |-> desc, depth |-> 10, packing |-> 1,
   encoding |-> enc, user |-> user, payload |-> payload, len |-> len]

Files ==
  << \* 1: big-endian, 1 row of 2 pixels; 0xFFC00000 and 0x1234567B
     MkFile(Profile(<<83, 68, 80, 88>>, ">", 2048, 2, 1, 50, 0, <<>>,
                    <<255, 192, 0, 0, 18, 52, 86, 123>>, -1)),
     \* 2: little-endian, 2 rows of 1 pixel, 4 bytes of user data;
     \*    0xFFC00000 and 0x80000006
     MkFile(Profile(<<88, 80, 68, 83>>, "<", 2052, 1, 2, 50, 0,
                    <<222, 173, 190, 239>>, <<0, 0, 192, 255, 6, 0, 0, 128>>, -1)),
     \* 3: big-endian, descriptor 51 (RGBA)
     MkFile(Profile(<<83, 68, 80, 88>>, ">", 2048, 1, 1, 51, 0, <<>>,
                    <<1, 2, 3, 4>>, -1)),
     \* 4: little-endian, encoding 1 (RLE)
     MkFile(Profile(<<88, 80, 68, 83>>, "<", 2048, 1, 1, 50, 1, <<>>,
                    <<1, 2, 3, 4>>, -1)),
     \* 5: a text magic that is neither token
     MkFile(Profile(<<65, 66, 67, 68>>, ">", 2048, 1, 1, 50, 0, <<>>,
                    <<1, 2, 3, 4>>, -1)),
     \* 6: four bytes that are not UTF-8 text
     MkFile(Profile(<<255, 254, 253, 252>>, ">", 2048, 1, 1, 50, 0, <<>>,
                    <<1, 2, 3, 4>>, -1)),
     \* 7: declares a payload offset beyond its end
     MkFile(Profile(<<83, 68, 80, 88>>, ">", 2060, 1, 1, 50, 0, <<>>,
                    <<>>, -1)),
     \* 8: ends inside the offset field
     MkFile(Profile(<<83, 68, 80, 88>>, ">", 2048, 1, 1, 50, 0, <<>>,
                    <<>>, 6)),
     \* 9: big-endian, 2 rows of 2 pixels, orientation 2 (bottom to top);
     \*    0x00400000, 0x00001000, 0x00000004, 0xFFFFFFFF
     MkFile([Profile(<<83, 68, 80, 88>>, ">", 2048, 2, 2, 50, 0, <<>>,
                     <<0, 64, 0, 0, 0, 0, 16, 0, 0, 0, 0, 4, 255, 255, 255, 255>>, -1)
               EXCEPT !.orientation = 2]) >>

\* Images handed to writeDPX by the caller's transform step (the resize):
\* samples between two 10-bit levels, other shapes, other channel counts,
\* samples outside [0,1], and images of 10-bit levels k/1023
Frac == Den - 1
Images ==
  << Image(1, 1, 3, << <<5 * Den + Frac, 0 * Den + Frac, 1022 * Den + Frac>> >>),
     Image(2, 2, 3, << <<Den, 0, 0>>, <<0, Den, 0>>, <<0, 0, Den>>, <<Den, Den, Den>> >>),
     Image(1, 1, 4, << <<1 * Den, 2 * Den, 3 * Den, 4 * Den>> >>),
     Image(1, 1, 2, << <<1 * Den, 2 * Den>> >>),
     Image(1, 1, 3, << <<0 - Den - Frac, 1024 * Den + Frac, 3 * Den>> >>),
     Image(1, 2, 3, << <<1 * Den, 0, 1023 * Den>>, <<512 * Den, 511 * Den, 2 * Den>> >>),
     Image(2, 1, 3, << <<1 * Den, 0, 1023 * Den>>, <<512 * Den, 511 * Den, 2 * Den>> >>) >>

(***************************************************************************)
(* State                                                                   *)
(***************************************************************************)
VARIABLES
  dpx_header,   \* module cache: None or Some(header bytes)
  dpx_endian,   \* module cache: "None", ">" or "<"
  dpx_meta,     \* module cache: None or Some(mapping)
  dpx_offset,   \* module cache: -1 or the payload offset
  f,            \* the caller's open source: which file, and its read cursor
  meta,         \* the caller's variable meta: None or Some(mapping)
  image,        \* the caller's image: None or Some(image)
  sink,         \* contents of the destination file of the last writeDPX,
                \* <<>> once the caller has gone on to other work
  ret,          \* the last call made and how it ended
  hist,         \* history of the run, used only to state properties
  table,        \* the module-level list propertymap
  drv           \* the __main__ loop: position, files left, destinations

vars == << dpx_header, dpx_endian, dpx_meta, dpx_offset, f, meta, image, sink,
           ret, hist, table, drv >>

cache == << dpx_header, dpx_endian, dpx_meta, dpx_offset >>

\* Files are named by their index in Files; SinkId names the destination
\* file, NoFile stands for no file.
SinkId == 0
NoFile == 0 - 1
FileBytes(id) == IF id = SinkId THEN sink ELSE Files[id]

\* the module after import and a caller that has done nothing yet
Loaded ==
  /\ dpx_header = None
  /\ dpx_endian = "None"
  /\ dpx_meta = None
  /\ dpx_offset = -1
  /\ f = [id |-> NoFile, pos |-> 0]
  /\ meta = None
  /\ image = None
  /\ sink = <<>>
  /\ ret = [op |-> "init", kind |-> "ok"]
  /\ hist = [cacheOf |-> NoFile,  \* file all four cached values come from
             metaOf |-> NoFile,   \* file the caller's meta was parsed from
             imageOf |-> None,    \* file and meta the caller's image was decoded from
             wrote |-> None,      \* arguments and cache of the last writeDPX
             posBefore |-> 0]     \* cursor of f before the last call

\* the __main__ block is not running: the functions are called by an
\* importing program
NotRunning ==
  [pc |-> "off", todo |-> <<>>, cur |-> NoFile, exists |-> {}, py3 |-> FALSE,
   ONCEONLY |-> TRUE, parsed |-> {}, decodeCalled |-> {}, decoded |-> {},
   created |-> {}]

Init ==
  /\ Loaded
  /\ table = propertymap
  /\ drv = NotRunning

(***************************************************************************)
(* readDPXMetaData(f) on the open source src; r is the outcome of the call *)
(* on its bytes.  newSink is the destination afterwards.                   *)
(***************************************************************************)
\* a variant that clears the cache when the magic is not a DPX token
readDPXMetaDataResetting(src, r, newSink) ==
  /\ f' = [src EXCEPT !.pos = r.pos]
  /\ IF r.kind = "meta"
     THEN /\ dpx_endian' = r.endianness
          /\ dpx_offset' = r.offset
          /\ dpx_header' = Some(r.header)
          /\ dpx_meta' = Some(r.meta)
          /\ meta' = Some(r.meta)
     ELSE IF r.kind = "None"
     THEN /\ dpx_endian' = "None"
          /\ dpx_offset' = -1
          /\ dpx_header' = None
          /\ dpx_meta' = None
          /\ meta' = None
     ELSE /\ dpx_endian' = IF r.saved THEN r.endianness ELSE dpx_endian
          /\ dpx_offset' = IF r.saved THEN r.offset ELSE dpx_offset
          /\ UNCHANGED << dpx_header, dpx_meta >>
          /\ meta' = meta
  /\ ret' = [op |-> "readDPXMetaData", kind |-> r.kind]
  /\ hist' = [hist EXCEPT
                !.cacheOf = IF r.kind = "meta" THEN src.id
                            ELSE IF r.saved \/ r.kind = "None" THEN NoFile ELSE @,
                !.metaOf = IF r.kind = "meta" THEN src.id
                           ELSE IF r.kind = "None" THEN NoFile ELSE @,
                !.wrote = IF newSink = <<>> THEN None ELSE @,
                !.posBefore = src.pos]
  /\ sink' = newSink
  /\ UNCHANGED image

readDPXMetaData(src, r, newSink) ==
  /\ f' = [src EXCEPT !.pos = r.pos]
  /\ IF r.kind = "meta"
     THEN /\ dpx_endian' = r.endianness
          /\ dpx_offset' = r.offset
          /\ dpx_header' = Some(r.header)
          /\ dpx_meta' = Some(r.meta)
          /\ meta' = Some(r.meta)
     ELSE /\ dpx_endian' = IF r.saved THEN r.endianness ELSE dpx_endian
          /\ dpx_offset' = IF r.saved THEN r.offset ELSE dpx_offset
          /\ UNCHANGED << dpx_header, dpx_meta >>
          \* meta = readDPXMetaData(f): not assigned when the call raises
          /\ meta' = IF r.kind = "None" THEN None ELSE meta
  /\ ret' = [op |-> "readDPXMetaData", kind |-> r.kind]
  /\ hist' = [hist EXCEPT
                !.cacheOf = IF r.kind = "meta" THEN src.id
                            ELSE IF r.saved THEN NoFile ELSE @,
                !.metaOf = IF r.kind = "meta" THEN src.id
                           ELSE IF r.kind = "None" THEN NoFile ELSE @,
                !.wrote = IF newSink = <<>> THEN None ELSE @,
                !.posBefore = src.pos]
  /\ sink' = newSink
  /\ UNCHANGED image

\* the outcomes of readDPXMetaData on the source files
ParsedFiles ==
  [i \in 1 .. Len(Files) |-> readDPXMetaDataOn(Files[i], "none")]

\* a table with one more entry, which repeats the name of an earlier entry
DuplicateTable == propertymap \o << <<"width", 776, 4, "I">> >>

\* the outcomes on the source files when the table is DuplicateTable
ParsedDuplicate ==
  [i \in 1 .. Len(Files) |-> readDPXMetaDataWith(DuplicateTable, Files[i], "none")]

\* the outcome on source file i under the table as it stands
Parsed(i) ==
  IF table = propertymap THEN ParsedFiles[i]
  ELSE IF table = DuplicateTable THEN ParsedDuplicate[i]
  ELSE readDPXMetaDataWith(table, Files[i], "none")

\* with open(fromdir + "/" + filename, "rb") as f: meta = readDPXMetaData(f)
ParseFile(i) ==
  /\ f.id # SinkId
  /\ readDPXMetaData([id |-> i, pos |-> 0], Parsed(i), <<>>)
  /\ UNCHANGED << table, drv >>

\* The destination just written is opened for reading: a round trip check,
\* the last thing a run does.
ReopenSink ==
  /\ f.id # SinkId
  /\ ret.op = "writeDPX"
  /\ f' = [id |-> SinkId, pos |-> 0]
  /\ ret' = [op |-> "open", kind |-> "ok"]
  /\ UNCHANGED << cache, meta, image, sink, hist, table, drv >>

\* the open destination is parsed
ParseSink ==
  /\ f.id = SinkId
  /\ readDPXMetaData(f, readDPXMetaDataWith(table, sink, "none"), sink)
  /\ UNCHANGED << table, drv >>

(***************************************************************************)
(* image = readDPXImageData(f, meta)                                       *)
(***************************************************************************)
\* a variant that seeks to the cached payload offset instead of the one in
\* the metadata argument
readDPXImageDataCallCached ==
  /\ f.id # NoFile
  /\ ~meta.isNone
  /\ LET m == IF dpx_offset >= 0 THEN [meta.val EXCEPT !["offset"] = dpx_offset]
              ELSE meta.val
         r == readDPXImageDataOn(FileBytes(f.id), f.pos, m)
     IN  /\ f' = [f EXCEPT !.pos = r.pos]
         /\ image' = IF r.kind = "image" THEN Some(r.image)
                     ELSE IF r.kind = "None" THEN None ELSE image
         /\ ret' = [op |-> "readDPXImageData", kind |-> r.kind]
         /\ hist' = [hist EXCEPT
                       !.imageOf = IF r.kind = "image"
                                   THEN Some([file |-> f.id, metaOf |-> hist.metaOf])
                                   ELSE IF r.kind = "None" THEN None ELSE @,
                       !.wrote = IF f.id = SinkId THEN @ ELSE None,
                       !.posBefore = f.pos]
         /\ sink' = IF f.id = SinkId THEN sink ELSE <<>>
  /\ UNCHANGED << cache, meta >>

readDPXImageDataCall ==
  /\ f.id # NoFile
  /\ ~meta.isNone
  /\ LET r == readDPXImageDataOn(FileBytes(f.id), f.pos, meta.val)
     IN  /\ f' = [f EXCEPT !.pos = r.pos]
         /\ image' = IF r.kind = "image" THEN Some(r.image)
                     ELSE IF r.kind = "None" THEN None ELSE image
         /\ ret' = [op |-> "readDPXImageData", kind |-> r.kind]
         /\ hist' = [hist EXCEPT
                       !.imageOf = IF r.kind = "image"
                                   THEN Some([file |-> f.id, metaOf |-> hist.metaOf])
                                   ELSE IF r.kind = "None" THEN None ELSE @,
                       !.wrote = IF f.id = SinkId THEN @ ELSE None,
                       !.posBefore = f.pos]
         /\ sink' = IF f.id = SinkId THEN sink ELSE <<>>
  /\ UNCHANGED << cache, meta >>

readDPXImageData == readDPXImageDataCall /\ UNCHANGED << table, drv >>

(***************************************************************************)
(* The caller's transform between decode and encode (tf.resize): any image *)
(***************************************************************************)
Transform(k) ==
  /\ f.id # SinkId
  /\ image' = Some(Images[k])
  /\ ret' = [op |-> "transform", kind |-> "ok"]
  /\ hist' = [hist EXCEPT !.imageOf = None, !.wrote = None]
  /\ sink' = <<>>
  /\ UNCHANGED << cache, f, meta, table, drv >>

(***************************************************************************)
(* with open(todir + "/" + filename, "wb") as o: writeDPX(o, image)        *)
(***************************************************************************)
writeDPXCall ==
  /\ f.id # SinkId
  /\ ~image.isNone
  /\ LET r == writeDPXOn(dpx_header, dpx_endian, dpx_offset, image.val)
     IN  /\ sink' = r.sink
         /\ ret' = [op |-> "writeDPX", kind |-> r.kind]
         /\ hist' = [hist EXCEPT
                       !.wrote = Some([image |-> image.val,
                                       imageOf |-> hist.imageOf,
                                       cacheOf |-> hist.cacheOf])]
  /\ UNCHANGED << cache, f, meta, image >>

writeDPX == writeDPXCall /\ UNCHANGED << table, drv >>

Next ==
  \/ \E i \in 1 .. Len(Files) : ParseFile(i)
  \/ ReopenSink
  \/ ParseSink
  \/ readDPXImageData
  \/ \E k \in 1 .. Len(Images) : Transform(k)
  \/ writeDPX

Spec == Init /\ [][Next]_vars

(***************************************************************************)
(* The same calls when the list propertymap holds a repeated name: the     *)
(* case the test of lines 233-234 is written for.                          *)
(***************************************************************************)
InitTable ==
  /\ Loaded
  /\ table \in {propertymap, DuplicateTable}
  /\ drv = NotRunning

TableSpec == InitTable /\ [][Next]_vars

(***************************************************************************)
(* The same calls on a source whose read can fail: f.read raises at the    *)
(* first read of the call (line 222) or at the read of the header bytes    *)
(* (line 256), and the exception leaves readDPXMetaData.                   *)
(***************************************************************************)
\* the outcomes on the source files when a read fails
ParsedFailing ==
  [io \in {"early", "late"} |->
     [i \in 1 .. Len(Files) |-> readDPXMetaDataOn(Files[i], io)]]

\* meta = readDPXMetaData(f) on source file i, with a read that fails
ParseFileFailing(i, io) ==
  /\ f.id # SinkId
  /\ readDPXMetaData([id |-> i, pos |-> 0], ParsedFailing[io][i], <<>>)
  /\ UNCHANGED << table, drv >>

FailingNext ==
  \/ \E i \in 1 .. Len(Files) : ParseFile(i)
  \/ readDPXImageData
  \/ writeDPX
  \/ \E i \in 1 .. Len(Files) : \E io \in {"early", "late"} : ParseFileFailing(i, io)

FailingSpec == Init /\ [][FailingNext]_vars

(***************************************************************************)
(* The __main__ block (lines 306-392): one pass over the file names of the *)
(* source directory.  drv.exists holds the names the destination directory *)
(* had at the start, drv.created the ones this run opened for writing; an  *)
(* exception that leaves a call ends the run (pc = "crashed").             *)
(***************************************************************************)
\* directory listings (fnames); a name is the index of its file in Files
Listings ==
  { <<5, 1>>, <<1, 5>>, <<3, 2>>, <<4, 9>>, <<2, 7>>, <<6, 1>>, <<9, 8>>,
    <<1, 2, 9>>, <<5, 3, 2>> }

\* where the loop goes after meta = readDPXMetaData(f)  (lines 323-327)
AfterParse(kind) ==
  IF kind = "meta" THEN "info" ELSE IF kind = "None" THEN "loop" ELSE "crashed"

\* a variant that treats the None of an unsupported profile as an image
AfterDecodeAlways(kind) ==
  IF kind = "raise" THEN "crashed" ELSE "resize"

\* where the loop goes after image = readDPXImageData(f, meta)  (lines 369-373)
AfterDecode(kind) ==
  IF kind = "image" THEN "resize" ELSE IF kind = "None" THEN "loop" ELSE "crashed"

\* meta['encryption_key'] == 0xFFFFFFFF  (line 342)
Unencrypted(m) ==
  m["encryption_key"] \div 65536 = 65535 /\ m["encryption_key"] % 65536 = 65535

\* a variant of the test that finds no name in the destination directory
ExistsNever(name) == name \in {}

\* os.path.exists(todir + "/" + filename)  (line 320)
Exists(name) == name \in drv.exists \cup drv.created

\* for filename in fnames: if not os.path.exists(todir + "/" + filename)
\* fails, the name is passed over
DrvSkip ==
  /\ drv.pc = "loop"
  /\ drv.todo # <<>>
  /\ Exists(Head(drv.todo))
  /\ drv' = [drv EXCEPT !.todo = Tail(@)]
  /\ ret' = [op |-> "skip", kind |-> "ok"]
  /\ UNCHANGED << cache, f, meta, image, sink, hist, table >>

\* with open(fromdir + "/" + filename, "rb") as f: meta = readDPXMetaData(f)
DrvParse ==
  /\ drv.pc = "loop"
  /\ drv.todo # <<>>
  /\ ~Exists(Head(drv.todo))
  /\ LET i == Head(drv.todo)
     IN  /\ readDPXMetaData([id |-> i, pos |-> 0], Parsed(i), <<>>)
         /\ drv' = [drv EXCEPT
                      !.pc = AfterParse(Parsed(i).kind),
                      !.todo = Tail(@),
                      !.cur = i,
                      !.parsed = IF Parsed(i).kind = "meta" THEN @ \cup {i} ELSE @]
  /\ UNCHANGED table

\* lines 328-367: the header report, printed for the first parsed file
\* only (VERBOSE is False).  binascii.hexlify(bin(key)) of line 342 raises
\* TypeError under Python 3, where bin() returns text.
DrvInfo ==
  /\ drv.pc = "info"
  /\ drv' = [drv EXCEPT
               !.ONCEONLY = FALSE,
               !.pc = IF drv.ONCEONLY /\ drv.py3 /\ ~Unencrypted(meta.val)
                      THEN "crashed" ELSE "decode"]
  /\ ret' = [op |-> "info", kind |-> "ok"]
  /\ UNCHANGED << cache, f, meta, image, sink, hist, table >>

\* image = readDPXImageData(f, meta)
DrvDecode ==
  /\ drv.pc = "decode"
  /\ readDPXImageDataCall
  /\ drv' = [drv EXCEPT
               !.pc = AfterDecode(ret'.kind),
               !.decodeCalled = @ \cup {drv.cur},
               !.decoded = IF ret'.kind = "image" THEN @ \cup {drv.cur} ELSE @]
  /\ UNCHANGED table

\* the images the two tf.resize calls can give: three channels, samples
\* within [0,1] (bilinear interpolation of samples within [0,1])
Resized ==
  {k \in 1 .. Len(Images) :
     /\ Images[k].c = 3
     /\ \A p \in 1 .. Len(Images[k].px) : \A c \in 1 .. 3 :
          Images[k].px[p][c] >= 0 /\ Images[k].px[p][c] <= 1023 * Den}

\* downrez = tf.resize(image, ...); uprez = tf.resize(downrez, ...)
DrvResize(k) ==
  /\ drv.pc = "resize"
  /\ k \in Resized
  /\ image' = Some(Images[k])
  /\ ret' = [op |-> "transform", kind |-> "ok"]
  /\ hist' = [hist EXCEPT !.imageOf = None, !.wrote = None]
  /\ sink' = <<>>
  /\ drv' = [drv EXCEPT !.pc = "write"]
  /\ UNCHANGED << cache, f, meta, table >>

\* with open(todir + "/" + filename, "wb") as o: writeDPX(o, uprez)
DrvWrite ==
  /\ drv.pc = "write"
  /\ writeDPXCall
  /\ drv' = [drv EXCEPT
               !.pc = IF ret'.kind = "ok" THEN "loop" ELSE "crashed",
               !.created = @ \cup {drv.cur}]
  /\ UNCHANGED table

DriverInit ==
  /\ Loaded
  /\ table = propertymap
  /\ \E l \in Listings : \E e \in SUBSET {l[1], l[Len(l)]} : \E p \in BOOLEAN :
       drv = [NotRunning EXCEPT !.pc = "loop", !.todo = l, !.exists = e, !.py3 = p]

DriverNext ==
  \/ DrvSkip
  \/ DrvParse
  \/ DrvInfo
  \/ DrvDecode
  \/ \E k \in 1 .. Len(Images) : DrvResize(k)
  \/ DrvWrite

DriverSpec == DriverInit /\ [][DriverNext]_vars

TypeOK ==
  /\ dpx_endian \in {"None", ">", "<"}
  /\ dpx_offset \in Int
  /\ ret.kind \in {"ok", "None", "raise", "meta", "image"}

(***************************************************************************)
(* Reference readings of a file, used to state the properties              *)
(***************************************************************************)
\* the file starts with the big-endian / little-endian magic token
IsBig(file) == Len(file) >= 4 /\ SubSeq(file, 1, 4) = <<83, 68, 80, 88>>
IsLittle(file) == Len(file) >= 4 /\ SubSeq(file, 1, 4) = <<88, 80, 68, 83>>

\* the n bytes at offset off, most significant first for the file's order
Significant(file, off, n) ==
  IF IsBig(file) THEN [i \in 1 .. n |-> file[off + i]]
  ELSE [i \in 1 .. n |-> file[off + n + 1 - i]]

U16At(file, off) ==
  LET m == Significant(file, off, 2) IN m[1] * 256 + m[2]
U32At(file, off) ==
  LET m == Significant(file, off, 4)
  IN  m[1] * 16777216 + m[2] * 65536 + m[3] * 256 + m[4]

\* the three 10-bit channels of payload word k (from 1) of a file whose
\* payload starts at off: bits 31..22, 21..12, 11..2
Channels(file, off, k) ==
  LET m == Significant(file, off + 4 * (k - 1), 4)
  IN  << m[1] * 4 + (m[2] \div 64),
         (m[2] % 64) * 16 + (m[3] \div 16),
         (m[3] % 16) * 64 + (m[4] \div 4) >>

\* a supported-profile file that holds its whole header and payload
ValidSupported(file) ==
  /\ IsBig(file) \/ IsLittle(file)
  /\ Len(file) >= HeaderSize
  /\ U32At(file, 4) >= HeaderSize
  /\ file[801] = 50 /\ file[804] = 10
  /\ U16At(file, 804) = 1 /\ U16At(file, 806) = 0
  /\ Len(file) >= U32At(file, 4) + 4 * U32At(file, 772) * U32At(file, 776)

\* every sample is one of the 10-bit levels k/1023
OnGrid(img) ==
  \A k \in 1 .. Len(img.px) : \A c \in 1 .. Len(img.px[k]) :
    img.px[k][c] % Den = 0 /\ img.px[k][c] >= 0 /\ img.px[k][c] <= 1023 * Den

\* every sample lies in [0,1]
InUnit(img) ==
  \A k \in 1 .. Len(img.px) : \A c \in 1 .. Len(img.px[k]) :
    img.px[k][c] >= 0 /\ img.px[k][c] <= 1023 * Den

Abs(x) == IF x < 0 THEN 0 - x ELSE x

\* round-to-nearest of a scaled sample
Round(n) == (2 * n + Den) \div (2 * Den)

(***************************************************************************)
(* C1  Endianness symmetry: a pixel of 10-bit levels k/1023 written by     *)
(* writeDPX after a parse of a file, and decoded from the written payload  *)
(* with that file's metadata, comes back with its three channel values,    *)
(* for big-endian and for little-endian files alike.                       *)
(***************************************************************************)
C1_EndiannessSymmetry ==
  (/\ ret.op = "readDPXImageData"
   /\ f.id = SinkId
   /\ ~hist.wrote.isNone
   /\ hist.wrote.val.cacheOf >= 1
   /\ hist.metaOf = hist.wrote.val.cacheOf
   /\ hist.wrote.val.image.c = 3
   /\ hist.wrote.val.image.h = meta.val["height"]
   /\ hist.wrote.val.image.w = meta.val["width"]
   /\ OnGrid(hist.wrote.val.image))
  => /\ ret.kind = "image"
     /\ image.val.px = hist.wrote.val.image.px

(***************************************************************************)
(* C2  Round trip: parse, decode and write back unmodified a valid         *)
(* supported-profile file, then parse the written file: the header bytes   *)
(* [0, offset) are those of the original, the offset is the original       *)
(* offset, and every stored 10-bit channel is within 1 of the original's.  *)
(***************************************************************************)
C2_RoundTrip ==
  (/\ ret.op = "readDPXMetaData"
   /\ f.id = SinkId
   /\ ~hist.wrote.isNone
   /\ hist.wrote.val.cacheOf >= 1
   /\ hist.wrote.val.imageOf = Some([file |-> hist.wrote.val.cacheOf,
                                     metaOf |-> hist.wrote.val.cacheOf])
   /\ ValidSupported(Files[hist.wrote.val.cacheOf]))
  => LET orig == Files[hist.wrote.val.cacheOf]
         off == U32At(orig, 4)
         n == U32At(orig, 772) * U32At(orig, 776)
     IN  /\ ret.kind = "meta"
         /\ meta.val["offset"] = off
         /\ dpx_header.val = SubSeq(orig, 1, off)
         /\ SubSeq(sink, 1, off) = SubSeq(orig, 1, off)
         /\ Len(sink) >= off + 4 * n
         /\ \A k \in 1 .. n : \A c \in 1 .. 3 :
              Abs(Channels(sink, off, k)[c] - Channels(orig, off, k)[c]) <= 1

(***************************************************************************)
(* C3  Header preservation: after writeDPX the destination holds, at every *)
(* position below the payload offset, the byte the parsed file has there,  *)
(* whatever the shape of the image written.                                *)
(***************************************************************************)
C3_HeaderPreserved ==
  (/\ ret.op = "writeDPX"
   /\ hist.wrote.val.cacheOf >= 1)
  => LET orig == Files[hist.wrote.val.cacheOf]
     IN  \A i \in 1 .. dpx_offset :
           i <= Len(orig) => (i <= Len(sink) /\ sink[i] = orig[i])

\* a file with user data and reserved regions was replayed under an image
\* of another shape than its header records
C3_Witness ==
  /\ ret.op = "writeDPX" /\ ret.kind = "ok"
  /\ hist.wrote.val.cacheOf = 2
  /\ dpx_offset > HeaderSize
  /\ image.val.h # dpx_meta.val["height"]
  /\ image.val.w # dpx_meta.val["width"]
  /\ Len(sink) > dpx_offset

(***************************************************************************)
(* C4  No process-wide session state: the image decoded from file A is     *)
(* written under A's header and at A's offset, whatever other files were   *)
(* parsed between the parse of A and the write.                            *)
(***************************************************************************)
C4_NoGlobalState ==
  (/\ ret.op = "writeDPX"
   /\ ~hist.wrote.val.imageOf.isNone
   /\ hist.wrote.val.imageOf.val.file >= 1
   /\ hist.wrote.val.imageOf.val.metaOf = hist.wrote.val.imageOf.val.file)
  => LET a == Files[hist.wrote.val.imageOf.val.file]
         off == U32At(a, 4)
     IN  /\ ret.kind = "ok"
         /\ SubSeq(sink, 1, Min(off, Len(a))) = SubSeq(a, 1, Min(off, Len(a)))
         /\ Len(sink) = off + 4 * Len(image.val.px)

(***************************************************************************)
(* C5  Bad magic: readDPXMetaData returns None exactly when the first four *)
(* bytes of the source are neither SDPX nor XPDS, and returned metadata    *)
(* holds the magic value.                                                  *)
(***************************************************************************)
C5_BadMagic ==
  ret.op = "readDPXMetaData"
  => LET file == FileBytes(f.id)
     IN  /\ (ret.kind = "None") <=> ~(IsBig(file) \/ IsLittle(file))
         /\ ret.kind = "meta" => meta.val["magic"] = SubSeq(file, 1, 4)

(***************************************************************************)
(* C6  Endianness comes from the magic token alone (SDPX big, XPDS little, *)
(* reported as meta['endianness']), and every 16-bit, 32-bit unsigned and  *)
(* 32-bit float field holds the reading of its bytes in that byte order.   *)
(***************************************************************************)
C6_FieldByteOrder ==
  (ret.op = "readDPXMetaData" /\ ret.kind = "meta")
  => LET file == FileBytes(f.id)
     IN  /\ IsBig(file) \/ IsLittle(file)
         /\ meta.val["endianness"] = (IF IsBig(file) THEN "be" ELSE "le")
         /\ \A i \in 1 .. Len(propertymap) :
              LET p == propertymap[i]
                  m == Significant(file, p[2], p[3])
              IN  /\ p[4] = "H" => meta.val[p[1]] = U16At(file, p[2])
                  /\ p[4] = "I" => meta.val[p[1]] = U32At(file, p[2])
                  /\ p[4] = "f" =>
                       meta.val[p[1]] =
                         [sign |-> m[1] \div 128,
                          exp  |-> (m[1] % 128) * 2 + (m[2] \div 128),
                          frac |-> (m[2] % 128) * 65536 + m[3] * 256 + m[4]]

\* a big-endian file was parsed whose fields read differently in the other
\* byte order
C6_Witness ==
  /\ ret.op = "readDPXMetaData" /\ ret.kind = "meta"
  /\ IsBig(FileBytes(f.id))
  /\ meta.val["endianness"] = "be"
  /\ meta.val["offset"] = 2048
  /\ meta.val["ditto"] = 1
  /\ meta.val["orientation"] = 1
  /\ meta.val["gamma"].exp = 127

(***************************************************************************)
(* C7  Profile rejection: readDPXImageData returns None, without reading   *)
(* from the source, unless depth 10, packing 1, encoding 0, descriptor 50; *)
(* a file with descriptor 51 or encoding 1 is rejected although its parse  *)
(* returned metadata that carries those values.                            *)
(***************************************************************************)
C7_ProfileRejection ==
  ret.op = "readDPXImageData"
  => /\ ~(meta.val["depth"] = 10 /\ meta.val["packing"] = 1
            /\ meta.val["encoding"] = 0 /\ meta.val["descriptor"] = 50)
          => (ret.kind = "None" /\ image.isNone /\ f.pos = hist.posBefore)
     /\ (hist.metaOf = f.id /\ (FileBytes(f.id)[801] = 51 \/ U16At(FileBytes(f.id), 806) = 1))
          => /\ ret.kind = "None"
             /\ meta.val["descriptor"] = FileBytes(f.id)[801]
             /\ meta.val["encoding"] = U16At(FileBytes(f.id), 806)

\* the decode of a parsed RGBA file was rejected
C7_Witness ==
  /\ ret.op = "readDPXImageData" /\ ret.kind = "None"
  /\ hist.metaOf = f.id
  /\ meta.val["descriptor"] = 51
  /\ meta.val["depth"] = 10 /\ meta.val["packing"] = 1 /\ meta.val["encoding"] = 0

(***************************************************************************)
(* C8  Bit extraction: each decoded pixel is (bits 31..22, bits 21..12,    *)
(* bits 11..2) of its payload word, each divided by 1023, also for words   *)
(* with the top bit set and whatever bits 1..0 are; 0xFFC00000 decodes to  *)
(* (1.0, 0.0, 0.0).                                                        *)
(***************************************************************************)
C8_BitExtraction ==
  (ret.op = "readDPXImageData" /\ ret.kind = "image")
  => LET file == FileBytes(f.id)
         off == meta.val["offset"]
         word(k) == IF meta.val["endianness"] = "be"
                    THEN [i \in 1 .. 4 |-> file[off + 4 * (k - 1) + i]]
                    ELSE [i \in 1 .. 4 |-> file[off + 4 * (k - 1) + 5 - i]]
     IN  \A k \in 1 .. Len(image.val.px) :
           LET m == word(k)
           IN  /\ image.val.px[k] =
                    << (m[1] * 4 + (m[2] \div 64)) * Den,
                       ((m[2] % 64) * 16 + (m[3] \div 16)) * Den,
                       ((m[3] % 16) * 64 + (m[4] \div 4)) * Den >>
               /\ m = <<255, 192, 0, 0>>
                    => image.val.px[k] = <<1023 * Den, 0, 0>>

\* words with the top bit set and with padding bits set were decoded, among
\* them 0xFFC00000
C8_Witness ==
  /\ ret.op = "readDPXImageData" /\ ret.kind = "image"
  /\ f.id = 2
  /\ Len(image.val.px) = 2
  /\ image.val.px[1] = <<1023 * Den, 0, 0>>
  /\ image.val.px[2] = <<512 * Den, 0, Den>>
  /\ FileBytes(f.id)[meta.val["offset"] + 5] % 4 # 0

(***************************************************************************)
(* C9  Encode packing: a pixel (R, G, B) of channels in [0,1] is stored as *)
(* the word with round(R*1023), round(G*1023), round(B*1023) in bits       *)
(* 31..22, 21..12, 11..2, round being round-to-nearest.  Stated for        *)
(* little-endian files, whose stored bytes are the word in native order.   *)
(***************************************************************************)
C9_EncodeRounds ==
  (/\ ret.op = "writeDPX" /\ ret.kind = "ok"
   /\ hist.wrote.val.cacheOf >= 1
   /\ IsLittle(Files[hist.wrote.val.cacheOf])
   /\ image.val.c = 3
   /\ InUnit(image.val))
  => \A k \in 1 .. Len(image.val.px) :
       /\ Len(sink) >= dpx_offset + 4 * k
       /\ Channels(sink, dpx_offset, k) =
            << Round(image.val.px[k][1]) % 1024,
               Round(image.val.px[k][2]) % 1024,
               Round(image.val.px[k][3]) % 1024 >>

(***************************************************************************)
(* C10  Shape check on encode: writeDPX fails and writes no payload when   *)
(* the image does not have 3 channels or its height or width is not the    *)
(* one recorded in the header being replayed.                              *)
(***************************************************************************)
C10_ShapeChecked ==
  (/\ ret.op = "writeDPX"
   /\ hist.wrote.val.cacheOf >= 1
   /\ \/ image.val.c # 3
      \/ image.val.h # U32At(Files[hist.wrote.val.cacheOf], 776)
      \/ image.val.w # U32At(Files[hist.wrote.val.cacheOf], 772))
  => /\ ret.kind = "raise"
     /\ Len(sink) <= Len(dpx_header.val)

(***************************************************************************)
(* Further reference readings                                              *)
(***************************************************************************)
\* the three channels of the 4 bytes at offset at, read big-endian (big)
\* or little-endian
ChannelsAs(file, at, big) ==
  LET m == IF big THEN [i \in 1 .. 4 |-> file[at + i]]
           ELSE [i \in 1 .. 4 |-> file[at + 5 - i]]
  IN  << m[1] * 4 + (m[2] \div 64),
         (m[2] % 64) * 16 + (m[3] \div 16),
         (m[3] % 16) * 64 + (m[4] \div 4) >>

\* the 10 bits stored for a sample: integer part toward zero, modulo 1024
Stored(n) == (IF n >= 0 THEN n \div Den ELSE 0 - ((0 - n) \div Den)) % 1024

\* the bytes of the word of a pixel, most significant first
WordBytes(p) ==
  LET r == Stored(p[1])
      g == Stored(p[2])
      b == Stored(p[3])
  IN  << r \div 4, (r % 4) * 64 + (g \div 16), (g % 16) * 16 + (b \div 64),
         (b % 64) * 4 >>

(***************************************************************************)
(* C11  After a successful readDPXMetaData the payload offset is the       *)
(* unsigned 32-bit offset field read in the selected byte order, and the   *)
(* captured raw header is the source's bytes [0, offset), of length        *)
(* offset, also for a source shorter than its declared offset.             *)
(***************************************************************************)
C11_RawHeaderCaptured ==
  (ret.op = "readDPXMetaData" /\ ret.kind = "meta")
  => LET file == FileBytes(f.id)
     IN  /\ dpx_offset = U32At(file, 4)
         /\ meta.val["offset"] = dpx_offset
         /\ Len(dpx_header.val) = dpx_offset
         /\ \A i \in 1 .. dpx_offset :
              i <= Len(file) /\ dpx_header.val[i] = file[i]

(***************************************************************************)
(* C12  writeDPX writes the packed words one after the other from the      *)
(* payload offset declared in the replayed header: the word of pixel       *)
(* (r, c) of an image of width W is at [offset + 4*(r*W + c), + 4), and    *)
(* nothing of the payload lies below offset.                               *)
(***************************************************************************)
C12_PayloadPlacement ==
  (/\ ret.op = "writeDPX" /\ ret.kind = "ok"
   /\ hist.wrote.val.cacheOf >= 1)
  => LET off == U32At(Files[hist.wrote.val.cacheOf], 4)
         hdr == dpx_header.val
         img == image.val
     IN  /\ \A r \in 0 .. img.h - 1 : \A c \in 0 .. img.w - 1 :
              LET at == off + 4 * (r * img.w + c)
                  wb == WordBytes(img.px[r * img.w + c + 1])
                  got == [i \in 1 .. 4 |-> sink[at + i]]
              IN  /\ Len(sink) >= at + 4
                  /\ got = wb \/ got = <<wb[4], wb[3], wb[2], wb[1]>>
         /\ Len(sink) = IF img.h * img.w = 0 THEN Len(hdr)
                        ELSE off + 4 * img.h * img.w
         /\ \A i \in 1 .. Min(off, Len(sink)) :
              sink[i] = IF i <= Len(hdr) THEN hdr[i] ELSE 0

\* an image of two rows and two columns was written behind a header that is
\* shorter than the offset it declares
C12_Witness ==
  /\ ret.op = "writeDPX" /\ ret.kind = "ok"
  /\ hist.wrote.val.cacheOf = 7
  /\ image.val.h = 2 /\ image.val.w = 2
  /\ Len(dpx_header.val) < dpx_offset
  /\ Len(sink) = dpx_offset + 16

(***************************************************************************)
(* C13  Decode layout: the image has shape (height, width, 3) and pixel    *)
(* (r, c) comes from the payload word r*width + c counted from the payload *)
(* offset, whatever the orientation field says.                            *)
(***************************************************************************)
C13_DecodeLayout ==
  (ret.op = "readDPXImageData" /\ ret.kind = "image")
  => LET img == image.val
         file == FileBytes(f.id)
         big == meta.val["endianness"] = "be"
     IN  /\ img.h = meta.val["height"]
         /\ img.w = meta.val["width"]
         /\ img.c = 3
         /\ Len(img.px) = img.h * img.w
         /\ \A r \in 0 .. img.h - 1 : \A c \in 0 .. img.w - 1 :
              LET ch == ChannelsAs(file, meta.val["offset"] + 4 * (r * img.w + c), big)
              IN  /\ Len(img.px[r * img.w + c + 1]) = 3
                  /\ \A j \in 1 .. 3 : img.px[r * img.w + c + 1][j] = ch[j] * Den

\* a file of two rows and two columns with orientation "bottom to top" was
\* decoded
C13_Witness ==
  /\ ret.op = "readDPXImageData" /\ ret.kind = "image"
  /\ f.id = 9
  /\ meta.val["orientation"] = 2
  /\ image.val.h = 2 /\ image.val.w = 2
  /\ image.val.px[1] = <<Den, 0, 0>>
  /\ image.val.px[4] = <<1023 * Den, 1023 * Den, 1023 * Den>>

(***************************************************************************)
(* C14  Decode byte order: readDPXImageData reads exactly width*height     *)
(* 4-byte words from the payload offset; every one of them is taken in     *)
(* big-endian order when the metadata's endianness is big and in           *)
(* little-endian order otherwise.                                          *)
(***************************************************************************)
C14_DecodeByteOrder ==
  (ret.op = "readDPXImageData" /\ ret.kind = "image")
  => LET file == FileBytes(f.id)
         off == meta.val["offset"]
         n == meta.val["width"] * meta.val["height"]
     IN  /\ f.pos = off + 4 * n
         /\ Len(image.val.px) = n
         /\ \A k \in 1 .. n :
              LET b == [i \in 1 .. 4 |-> file[off + 4 * (k - 1) + i]]
                  swapped == meta.val["endianness"] = "be"
                  hi == IF swapped THEN b[1] * 256 + b[2] ELSE b[4] * 256 + b[3]
                  lo == IF swapped THEN b[3] * 256 + b[4] ELSE b[2] * 256 + b[1]
              IN  image.val.px[k] =
                    << (hi \div 64) * Den,
                       ((hi % 64) * 16 + (lo \div 4096)) * Den,
                       ((lo \div 4) % 1024) * Den >>

\* a big-endian payload of several words, none of them the same read
\* backwards, was decoded
C14_Witness ==
  /\ ret.op = "readDPXImageData" /\ ret.kind = "image"
  /\ f.id = 1
  /\ meta.val["endianness"] = "be"
  /\ Len(image.val.px) = 2
  /\ image.val.px[2] = <<72 * Den, 837 * Den, 414 * Den>>

(***************************************************************************)
(* C15  Every sample of a decoded image lies in [0,1] and is k/1023 for an *)
(* integer k in 0..1023, whatever the payload holds.                       *)
(***************************************************************************)
C15_SamplesNormalized ==
  (ret.op = "readDPXImageData" /\ ret.kind = "image")
  => /\ OnGrid(image.val)
     /\ InUnit(image.val)

\* a payload written from samples outside [0,1] was decoded
C15_Witness ==
  /\ ret.op = "readDPXImageData" /\ ret.kind = "image"
  /\ f.id = SinkId
  /\ ~InUnit(hist.wrote.val.image)
  /\ Len(image.val.px) = 1
  /\ image.val.px[1] # <<0, 0, 0>>

(***************************************************************************)
(* C16  A parse call has no side effect besides moving the source's read   *)
(* cursor: no state outside the returned value changes.                    *)
(***************************************************************************)
C16_ParseHasNoSideEffect ==
  [][ret'.op = "readDPXMetaData" => cache' = cache]_vars

\* no two entries of the table tbl carry the same name
UniqueNames(tbl) ==
  \A i \in 1 .. Len(tbl) : \A j \in 1 .. Len(tbl) : tbl[i][1] = tbl[j][1] => i = j

(***************************************************************************)
(* C17  A repeated field name in the table is detected when the table is   *)
(* constructed: no parse call goes through the field loop and returns      *)
(* metadata under a table in which two entries have the same name.         *)
(***************************************************************************)
C17_DuplicateNeverParsed ==
  (ret.op = "readDPXMetaData" /\ ret.kind = "meta") => UniqueNames(table)

(***************************************************************************)
(* C18  The field table holds magic at 0/4, offset at 4/4/uint32, width at *)
(* 772/4/uint32, height at 776/4/uint32, descriptor at 800/1/uint8, depth  *)
(* at 803/1/uint8, packing at 804/2/uint16 and encoding at 806/2/uint16;   *)
(* no two entries have the same name and none is named endianness; and the *)
(* table is in every state the one the module defined.                     *)
(***************************************************************************)
C18_StaticTable ==
  /\ table = propertymap
  /\ \A e \in { <<"magic", 0, 4, "magic">>, <<"offset", 4, 4, "I">>,
                <<"width", 772, 4, "I">>, <<"height", 776, 4, "I">>,
                <<"descriptor", 800, 1, "B">>, <<"depth", 803, 1, "B">>,
                <<"packing", 804, 2, "H">>, <<"encoding", 806, 2, "H">> } :
       \E i \in 1 .. Len(table) : table[i] = e
  /\ UniqueNames(table)
  /\ \A i \in 1 .. Len(table) : table[i][1] # "endianness"

\* the three functions have all acted: a decoded image was written behind
\* the header of the file it was parsed from
C18_Witness ==
  /\ ret.op = "writeDPX" /\ ret.kind = "ok"
  /\ ~hist.wrote.val.imageOf.isNone
  /\ hist.wrote.val.cacheOf >= 1
  /\ Len(table) = Len(propertymap)
  /\ meta.val["packing"] = 1 /\ meta.val["encoding"] = 0

(***************************************************************************)
(* C19  Order of the calls in the driver: readDPXImageData is called on a  *)
(* file only after readDPXMetaData returned metadata for it, and writeDPX  *)
(* is called and the destination created only after readDPXImageData       *)
(* returned an image for it; a file with bad magic is never decoded, and   *)
(* one with bad magic or an unsupported profile gets no output file.       *)
(***************************************************************************)
C19_DriverOrdering ==
  /\ drv.decodeCalled \subseteq drv.parsed
  /\ drv.decoded \subseteq drv.decodeCalled
  /\ drv.created \subseteq drv.decoded
  /\ (ret.op = "readDPXImageData" => drv.cur \in drv.parsed /\ hist.metaOf = drv.cur)
  /\ (ret.op = "writeDPX" => drv.cur \in drv.decoded)
  /\ \A i \in drv.decodeCalled : IsBig(Files[i]) \/ IsLittle(Files[i])
  /\ \A i \in drv.created :
       /\ IsBig(Files[i]) \/ IsLittle(Files[i])
       /\ Files[i][801] = 50 /\ Files[i][804] = 10
       /\ U16At(Files[i], 804) = 1 /\ U16At(Files[i], 806) = 0

\* a file with bad magic was left without a decode and without an output,
\* and the file after it was parsed, decoded and written
C19_Witness ==
  /\ drv.pc = "loop" /\ drv.todo = <<>>
  /\ drv.cur = 1
  /\ drv.created = {1} /\ drv.decodeCalled = {1}
  /\ 5 \notin drv.parsed \cup drv.exists
  /\ ret.op = "writeDPX"

(***************************************************************************)
(* C20  Cache consistency: in every reachable state, also after a read of  *)
(* the header bytes failed inside readDPXMetaData, the four cached values  *)
(* are all unset, or all come from one parsed file: dpx_offset is          *)
(* dpx_meta's offset, dpx_header is that file's bytes [0, dpx_offset) and  *)
(* dpx_endian matches its magic.                                           *)
(***************************************************************************)
C20_CacheConsistent ==
  \/ /\ dpx_header.isNone /\ dpx_meta.isNone
     /\ dpx_endian = "None" /\ dpx_offset = -1
  \/ /\ ~dpx_header.isNone /\ ~dpx_meta.isNone
     /\ dpx_offset = dpx_meta.val["offset"]
     /\ dpx_endian = (IF dpx_meta.val["endianness"] = "be" THEN ">" ELSE "<")
     /\ Len(dpx_header.val) >= 8
     /\ dpx_endian = (IF IsBig(dpx_header.val) THEN ">" ELSE "<")
     /\ IsBig(dpx_header.val) \/ IsLittle(dpx_header.val)
     /\ dpx_offset = U32At(dpx_header.val, 4)
     /\ hist.cacheOf # NoFile
     /\ hist.cacheOf >= 1 =>
          LET file == Files[hist.cacheOf]
          IN  dpx_header.val = SubSeq(file, 1, Min(dpx_offset, Len(file)))

(***************************************************************************)
(* C21  A readDPXMetaData call that fails on bad magic leaves dpx_header,   *)
(* dpx_endian, dpx_offset and dpx_meta as they were before the call, and a *)
(* writeDPX issued after it replays the header of the file parsed          *)
(* successfully most recently.                                             *)
(***************************************************************************)
C21_BadMagicKeepsCache ==
  [][/\ (/\ ret'.op = "readDPXMetaData"
         /\ LET file == IF f'.id = SinkId THEN sink' ELSE Files[f'.id]
            IN  ~(IsBig(file) \/ IsLittle(file)))
        => /\ cache' = cache
           /\ ret'.kind \in {"None", "raise"}
     /\ (/\ ret'.op = "writeDPX"
         /\ f.id >= 1
         /\ ~(IsBig(Files[f.id]) \/ IsLittle(Files[f.id]))
         /\ hist.cacheOf >= 1)
        => LET last == Files[hist.cacheOf]
               n == Min(U32At(last, 4), Len(last))
           IN  /\ Len(sink') >= n
               /\ SubSeq(sink', 1, n) = SubSeq(last, 1, n)
               /\ IsBig(sink') \/ IsLittle(sink')
    ]_vars

\* a file was parsed, a file with bad magic was parsed after it, and the
\* write that followed replayed the header of the first
C21_Witness ==
  /\ ret.op = "writeDPX" /\ ret.kind = "ok"
  /\ f.id = 5
  /\ meta.isNone
  /\ hist.cacheOf = 2
  /\ dpx_offset = U32At(Files[2], 4)
  /\ SubSeq(sink, 1, dpx_offset) = SubSeq(Files[2], 1, dpx_offset)

(***************************************************************************)
(* C22  writeDPX called before any successful readDPXMetaData, with the    *)
(* cache at its initial values (header unset, offset -1), fails and writes *)
(* no byte to the sink.                                                    *)
(***************************************************************************)
C22_WriteBeforeParseFails ==
  (/\ ret.op = "writeDPX"
   /\ dpx_header.isNone /\ dpx_meta.isNone
   /\ dpx_endian = "None" /\ dpx_offset = -1)
  => /\ ret.kind = "raise"
     /\ sink = <<>>
     /\ hist.wrote.val.cacheOf = NoFile

\* an image of three channels with pixels was handed to writeDPX while no
\* parse had succeeded yet
C22_Witness ==
  /\ ret.op = "writeDPX" /\ ret.kind = "raise"
  /\ dpx_header.isNone /\ dpx_offset = -1
  /\ image.val.c = 3 /\ Len(image.val.px) = 4
  /\ sink = <<>>

\* the fields of the word that tofile wrote at offset at: its four bytes in
\* the order of the writing host, least significant first
WrittenWord(file, at) ==
  LET lo == file[at + 1] + 256 * file[at + 2]
      hi == file[at + 3] + 256 * file[at + 4]
  IN  [r |-> hi \div 64,
       g |-> (hi % 64) * 16 + (lo \div 4096),
       b |-> (lo \div 4) % 1024,
       pad |-> lo % 4]

(***************************************************************************)
(* C23  Every payload word written by writeDPX has its two padding bits    *)
(* (bits 1..0) equal to 0, whatever the samples are and whatever padding   *)
(* bits the decoded words had.                                             *)
(***************************************************************************)
C23_PaddingZero ==
  (ret.op = "writeDPX" /\ ret.kind = "ok")
  => /\ Len(sink) >= dpx_offset + 4 * Len(image.val.px)
     /\ \A k \in 1 .. Len(image.val.px) :
          sink[dpx_offset + 4 * (k - 1) + 1] % 4 = 0

\* the image decoded from a source word with padding bits 2 was written
\* back, and the word written for it has padding bits 0
C23_Witness ==
  /\ ret.op = "writeDPX" /\ ret.kind = "ok"
  /\ ~hist.wrote.val.imageOf.isNone
  /\ hist.wrote.val.imageOf.val.file = 2
  /\ hist.wrote.val.cacheOf = 2
  /\ Files[2][dpx_offset + 5] % 4 = 2
  /\ sink[dpx_offset + 5] = 4

(***************************************************************************)
(* C24  Channel isolation on encode: for every pixel, also with samples    *)
(* outside [0,1], the 10 bits written for a channel are that channel's     *)
(* scaled integer modulo 1024 (not clamped), and neither another channel's *)
(* bits nor the padding bits are touched by it.                            *)
(***************************************************************************)
C24_ChannelIsolation ==
  (ret.op = "writeDPX" /\ ret.kind = "ok")
  => \A k \in 1 .. Len(image.val.px) :
       LET w == WrittenWord(sink, dpx_offset + 4 * (k - 1))
           p == image.val.px[k]
       IN  /\ w.r = Stored(p[1])
           /\ w.g = Stored(p[2])
           /\ w.b = Stored(p[3])
           /\ w.pad = 0

\* a pixel with a sample below 0 and a sample above 1 was written: the
\* first wrapped to 1023, the second to 0, the third channel holds its 3
C24_Witness ==
  /\ ret.op = "writeDPX" /\ ret.kind = "ok"
  /\ image.val = Images[5]
  /\ image.val.px[1][1] < 0 /\ image.val.px[1][2] > 1023 * Den
  /\ WrittenWord(sink, dpx_offset) = [r |-> 1023, g |-> 0, b |-> 3, pad |-> 0]

(***************************************************************************)
(* C25  readDPXImageData neither reads nor modifies the cached header      *)
(* state: what it returns follows from the source bytes and the metadata   *)
(* argument alone, and dpx_header, dpx_endian, dpx_offset, dpx_meta and    *)
(* the metadata mapping are the same after the call, whether it returns an *)
(* image or rejects the profile.                                           *)
(***************************************************************************)
C25_DecodeIgnoresCache ==
  [][ret'.op = "readDPXImageData"
     => /\ cache' = cache
        /\ meta' = meta
        /\ ret'.kind = "None" => (f' = f /\ image'.isNone)
        /\ ret'.kind = "image" =>
             LET file == FileBytes(f.id)
                 m == meta.val
                 n == m["width"] * m["height"]
             IN  /\ f'.pos = m["offset"] + 4 * n
                 /\ image'.val.h = m["height"] /\ image'.val.w = m["width"]
                 /\ \A k \in 1 .. n : \A j \in 1 .. 3 :
                      image'.val.px[k][j]
                        = ChannelsAs(file, m["offset"] + 4 * (k - 1),
                                     m["endianness"] = "be")[j] * Den
    ]_vars

\* an image was decoded with the metadata of one file while the cache held
\* the payload offset of another
C25_Witness ==
  /\ ret.op = "readDPXImageData" /\ ret.kind = "image"
  /\ dpx_offset >= 0
  /\ dpx_offset # meta.val["offset"]
  /\ f.pos = meta.val["offset"] + 4 * Len(image.val.px)
  /\ Len(image.val.px) > 0

(***************************************************************************)
(* C26  The driver never overwrites an existing destination file: a source *)
(* whose name already exists in the destination directory is neither       *)
(* parsed nor written, and each processed source causes at most one        *)
(* writeDPX call, to the destination of the same name.                     *)
(***************************************************************************)
C26_NoOverwrite ==
  [][/\ ret'.op = "readDPXMetaData"
          => /\ f'.id \notin drv.exists \cup drv.created
             /\ drv'.cur = f'.id
     /\ ret'.op = "writeDPX"
          => /\ f.id \notin drv.exists \cup drv.created
             /\ drv'.created = drv.created \cup {f.id}
             /\ drv.cur = f.id
     /\ drv'.exists = drv.exists
     /\ drv.created \subseteq drv'.created
     /\ ret'.op # "writeDPX" => drv'.created = drv.created
    ]_vars

\* a name found in the destination directory was passed over, and the file
\* after it in the listing was parsed, decoded and written under its own name
C26_Witness ==
  /\ ret.op = "writeDPX" /\ ret.kind = "ok"
  /\ drv.exists = {1}
  /\ drv.cur = 2 /\ f.id = 2
  /\ drv.created = {2}
  /\ drv.parsed = {2}
  /\ Len(drv.todo) = 1

====
